---- MODULE Spec2Model ----
(***************************************************************************)
(* Model of src/zettelkasten_automation.py: the ZettelkastenAutomation     *)
(* pipeline (processing ledger, candidate selection, per-note pass, run    *)
(* loop) together with the collaborators it drives: the document store,   *)
(* the archive repository and the ledger file.                            *)
(*                                                                         *)
(* Texts (titles, tags, keywords, bodies, paths) are sequences of          *)
(* characters, each character a one-character string.  The processed_at    *)
(* timestamp of a ledger entry is left out: nothing reads it.              *)
(***************************************************************************)
EXTENDS Integers, Sequences, FiniteSets, TLC

\* ------------------------------------------------------------- bounds
MaxRuns == 2      \* number of run() calls explored
MaxEdits == 1     \* number of external edits of notes explored
MaxFaults == 1    \* number of failing calls, failed saves and crashes explored
PageSize == 3     \* blocks returned by one blocks.children.list call
MaxPages == 3     \* find_related_pages alone: pages of the snapshot
MaxRev == 2       \* _is_already_processed alone: largest stored edit-revision
MaxShort == 2     \* texts alone: longest of the short texts
MaxOver == 2      \* texts alone: characters below and above a length limit

\* ---------------------------------------------------------- constants
MinContentLen == 20   \* process_page: len(content) < 20 is skipped
TopK == 5             \* find_related_pages: top_k default
SummaryLen == 100     \* analyze_with_ai: content[:100]
SafeTitleLen == 50    \* process_page: [:50]
DateLen == 10         \* process_page: page['created_time'][:10]

NoteIds == {1, 2}

\* Lengths of the extracted body text of a note.
ContentLens == {19, 20}

Min(a, b) == IF a < b THEN a ELSE b
Take(s, k) == SubSeq(s, 1, Min(k, Len(s)))

\* ------------------------------------------------------------------ texts
\* str.lower(), on the letters the model uses in upper case.
LowerChar(c) ==
    CASE c = "R" -> "r"
      [] c = "G" -> "g"
      [] OTHER -> c
Lower(s) == [i \in 1..Len(s) |-> LowerChar(s[i])]

\* sub in s
Contains(s, sub) ==
    \E i \in 0..(Len(s) - Len(sub)) : SubSeq(s, i + 1, i + Len(sub)) = sub

\* ' '.join(texts)
RECURSIVE Join(_)
Join(texts) ==
    IF texts = << >> THEN << >>
    ELSE IF Len(texts) = 1 THEN texts[1]
    ELSE texts[1] \o <<" ">> \o Join(Tail(texts))

\* str.replace(old, new) for a one-character old.
Replace(s, old, new) == [i \in 1..Len(s) |-> IF s[i] = old THEN new ELSE s[i]]

\* ''.join(c for c in s if keep(c)), keep given as the set of characters kept.
RECURSIVE KeepOnly(_, _)
KeepOnly(s, kept_chars) ==
    IF s = << >> THEN << >>
    ELSE IF Head(s) \in kept_chars THEN <<Head(s)>> \o KeepOnly(Tail(s), kept_chars)
    ELSE KeepOnly(Tail(s), kept_chars)

\* The characters of the model for which str.isalnum() is true.
AlnumChars == {"a", "b", "c", "d", "e", "f", "g", "h", "i", "j", "k", "l", "m", "n", "o",
               "p", "q", "r", "s", "t", "u", "v", "w", "x", "y", "z", "R", "G", "T", "Z",
               "0", "1", "2", "3", "4", "5", "6", "7", "8", "9"}

\* A body of n characters: the digits in turn.
Digits == <<"0", "1", "2", "3", "4", "5", "6", "7", "8", "9">>
Body(n) == [i \in 1..n |-> Digits[(i % 10) + 1]]

Memo == <<"m", "e", "m", "o">>
RustWord == <<"R", "u", "s", "t">>
KwRust == <<"r", "u", "s", "t">>
KwGc == <<"g", "c">>

EmptyTitle == << >>
\* The source's Japanese literals, written in Latin letters.
UntitledMark == <<"m", "u", "d", "a", "i">>                \* find_related_pages: skipped title
FallbackTitle == UntitledMark \o <<"n", "o">> \o Memo      \* analyze_with_ai: fallback title
FallbackTag == <<"m", "i", "b", "u", "n", "r", "u", "i">>  \* analyze_with_ai: fallback tag
TitleFailed == <<"n", "o", " ", "t", "i", "t", "l", "e">>  \* run: title of an error entry

\* ------------------------------------------------- the ledger (a dict)
\* shape "ok":    {"processed_pages": {...}}
\* shape "nokey": parseable JSON without the "processed_pages" key
\* shape "list":  {"processed_pages": []}
NoEntry == [title |-> EmptyTitle, last_edited_time |-> 0, status |-> "none"]

EmptyLog == [shape |-> "ok", processed_pages |-> [n \in NoteIds |-> NoEntry]]
NoKeyLog == [shape |-> "nokey", processed_pages |-> [n \in NoteIds |-> NoEntry]]
ListLog == [shape |-> "list", processed_pages |-> [n \in NoteIds |-> NoEntry]]

\* The ledger file: absent, not parseable, or a JSON document.
MissingFile == [kind |-> "missing", log |-> EmptyLog]
GarbageFile == [kind |-> "garbage", log |-> EmptyLog]
JsonFile(log) == [kind |-> "json", log |-> log]

\* _load_log: the parsed document whatever its shape; the empty ledger when
\* the file is absent or json.load raises.
LoadLog(file) == IF file.kind = "json" THEN file.log ELSE EmptyLog

\* _is_already_processed with the comparison of line 76 lost: a note with an
\* entry counts as processed whatever its edit-revision.
ProcessedIgnoringRevision(log, page_id, last_edited_time) ==
    IF log.shape = "nokey" THEN "raise"
    ELSE IF log.shape = "list" THEN "false"
    ELSE IF log.processed_pages[page_id] # NoEntry THEN "true" ELSE "false"

\* _is_already_processed counting only the entries of successful passes.
ProcessedOnlyIfSuccess(log, page_id, last_edited_time) ==
    IF log.shape = "nokey" THEN "raise"
    ELSE IF log.shape = "list" THEN "false"
    ELSE IF log.processed_pages[page_id].status = "success"
              /\ log.processed_pages[page_id].last_edited_time = last_edited_time
         THEN "true" ELSE "false"

\* _is_already_processed: "raise" stands for the KeyError / TypeError of
\* self.processing_log["processed_pages"] on a document of another shape.
IsAlreadyProcessed(log, page_id, last_edited_time) ==
    IF log.shape = "nokey" THEN "raise"
    ELSE IF log.shape = "list" THEN "false"
    ELSE IF log.processed_pages[page_id] # NoEntry
         THEN IF log.processed_pages[page_id].last_edited_time = last_edited_time
              THEN "true" ELSE "false"
         ELSE "false"

\* _add_to_log, the assignment of line 81: raises unless processed_pages is
\* a mapping.
AddRaises(log) == log.shape # "ok"
AddEntry(log, page_id, title, last_edited_time, status) ==
    [log EXCEPT !.processed_pages[page_id] =
        [title |-> title, last_edited_time |-> last_edited_time, status |-> status]]

\* _save_log: the outcomes of open(.., 'w') followed by json.dump.
\*   "ok"         the whole ledger is written
\*   "open_fail"  open raises, the file is untouched, the error is swallowed
\*   "write_fail" the file was truncated, the dump raises, error swallowed
\*   "crash"      the process dies after the truncation, during the dump
SaveOutcomes == {"ok", "open_fail", "write_fail", "crash"}
SaveLog(file, log, how) ==
    CASE how = "ok" -> JsonFile(log)
      [] how = "open_fail" -> file
      [] OTHER -> GarbageFile

\* ------------------------------------------------- the document store
NoteSeq == <<1, 2>>                       \* the order the database lists notes in
\* page['created_time'], the same day for both notes.
CreatedTime(n) == <<"2", "0", "2", "4", "-", "0", "1", "-", "0", "1",
                    "T", "0", "9", ":", "0", "0", "Z">>

\* A block: its type, whether its text contains the marker of the related
\* section, and the note a mention refers to (0: none).
Para == [type |-> "paragraph", marked |-> FALSE, ref |-> 0]
UserHeading == [type |-> "heading_1", marked |-> TRUE, ref |-> 0]
Divider == [type |-> "divider", marked |-> FALSE, ref |-> 0]
RelatedHeading == [type |-> "heading_2", marked |-> TRUE, ref |-> 0]
Mention(id) == [type |-> "paragraph", marked |-> FALSE, ref |-> id]

\* blocks.children.list, called once and never followed by has_more /
\* next_cursor: the first page of the note's blocks.
ListBlocks(blocks) == Take(blocks, PageSize)

\* update_notion_page, lines 343-349: only heading_2 and heading_3 are looked at.
HasRelatedSection(results) ==
    \E i \in 1..Len(results) :
        results[i].type \in {"heading_2", "heading_3"} /\ results[i].marked

\* update_notion_page, lines 352-377: divider, heading, one mention per page.
MentionBlocks(related) == [i \in 1..Len(related) |-> Mention(related[i].id)]
Children(related) == <<Divider, RelatedHeading>> \o MentionBlocks(related)

\* Number of sections of a note headed by the marker.
RelatedSections(blocks) ==
    Cardinality({i \in 1..Len(blocks) :
        blocks[i].marked /\ blocks[i].type \in {"heading_1", "heading_2", "heading_3"}})

\* ------------------------------------------------- enrichment and linking
AITitle == RustWord \o <<" ", "c", "a", "c", "h", "e">>
AISummary == <<"s", "u", "m">>
AIResult == [title |-> AITitle, tags |-> <<KwRust>>, summary |-> AISummary,
             keywords |-> <<KwRust>>]
AIResultNoSummary == [title |-> AITitle, tags |-> <<KwRust>>, keywords |-> <<KwRust>>]
AIResultNoKeywords == [title |-> AITitle, tags |-> <<KwRust>>, summary |-> AISummary]

\* analyze_with_ai, lines 235-242.
Fallback(content, existing_tags) ==
    [title |-> FallbackTitle,
     tags |-> IF existing_tags # << >> THEN existing_tags ELSE <<FallbackTag>>,
     summary |-> Take(content, SummaryLen),
     keywords |-> << >>]

\* What the try block of analyze_with_ai meets:
\*   "ok"           a JSON object with the four fields
\*   "call_fails"   chat.completions.create raises
\*   "not_json"     json.loads raises
\*   "no_title"     result['title'] raises KeyError (line 230)
\*   "no_tags"      result['tags'] raises KeyError (line 231)
\*   "no_summary"   nothing reads result['summary']
\*   "no_keywords"  result.get('keywords', []) (line 232) does not raise
Backends == {"ok", "call_fails", "not_json", "no_title", "no_tags", "no_summary",
             "no_keywords"}

\* analyze_with_ai: the parsed answer, or the fallback when something in the
\* try block raises.
AnalyzeWithAI(backend, content, existing_tags) ==
    CASE backend = "ok" -> AIResult
      [] backend = "no_summary" -> AIResultNoSummary
      [] backend = "no_keywords" -> AIResultNoKeywords
      [] OTHER -> Fallback(content, existing_tags)

\* process_page, line 472: analysis.get('keywords', []).
GetKeywords(analysis) ==
    IF "keywords" \in DOMAIN analysis THEN analysis.keywords ELSE << >>

\* find_related_pages, lines 271-274, with the two lower() calls lost.
OccursCaseSensitive(kw, text) == Contains(text, kw)

\* find_related_pages, lines 271-274: kw.lower() in text.lower().
Occurs(kw, text) == Contains(Lower(text), Lower(kw))
Matches(keywords, text) == Cardinality({i \in 1..Len(keywords) : Occurs(keywords[i], text)})

\* find_related_pages, lines 266-277.
Score(page, keywords) ==
    Matches(keywords, page.title) * 2 + Matches(keywords, Join(page.tags))

\* find_related_pages, lines 254-284: the scored pages in cache order.
RECURSIVE Scored(_, _, _)
Scored(cache, keywords, current_page_id) ==
    IF cache = << >> THEN << >>
    ELSE LET page == Head(cache)
             rest == Scored(Tail(cache), keywords, current_page_id)
         IN IF page.id = current_page_id THEN rest
            ELSE IF page.title = EmptyTitle \/ page.title = UntitledMark THEN rest
            ELSE IF Score(page, keywords) > 0
                 THEN <<[id |-> page.id, title |-> page.title,
                         score |-> Score(page, keywords)]>> \o rest
                 ELSE rest

\* A descending sort that puts a later page before the earlier pages of the
\* same score.
RECURSIVE InsertBeforeTies(_, _)
InsertBeforeTies(x, sorted) ==
    IF sorted = << >> THEN <<x>>
    ELSE IF Head(sorted).score > x.score
         THEN <<Head(sorted)>> \o InsertBeforeTies(x, Tail(sorted))
         ELSE <<x>> \o sorted

\* list.sort(key=score, reverse=True): stable, descending.
RECURSIVE InsertByScore(_, _)
InsertByScore(x, sorted) ==
    IF sorted = << >> THEN <<x>>
    ELSE IF Head(sorted).score >= x.score
         THEN <<Head(sorted)>> \o InsertByScore(x, Tail(sorted))
         ELSE <<x>> \o sorted

RECURSIVE SortByScore(_)
SortByScore(s) ==
    IF s = << >> THEN << >>
    ELSE InsertByScore(s[Len(s)], SortByScore(SubSeq(s, 1, Len(s) - 1)))

FindRelatedPages(cache, keywords, current_page_id, top_k) ==
    IF keywords = << >> THEN << >>
    ELSE Take(SortByScore(Scored(cache, keywords, current_page_id)), top_k)

\* process_page, lines 491-502.
TargetDir == <<"z", "e", "t", "t", "e", "l", "k", "a", "s", "t", "e", "n", "-",
               "v", "a", "u", "l", "t">>
Extension == <<".", "m", "d">>
SafeChars == AlnumChars \cup {" ", "-", "_"}
\* process_page, lines 497-499, with the [:50] of line 497 lost.
SafeTitleUncut(title) ==
    KeepOnly(Replace(Replace(title, "/", "-"), "\\", "-"), AlnumChars \cup {" ", "-", "_"})

SafeTitle(title) ==
    KeepOnly(Take(Replace(Replace(title, "/", "-"), "\\", "-"), SafeTitleLen), SafeChars)
Filename(created_time, title) ==
    TargetDir \o <<"/">> \o Take(created_time, DateLen) \o <<"_">> \o SafeTitle(title)
        \o Extension

NoDoc == [note |-> 0, title |-> EmptyTitle, tags |-> << >>]
Paths == {Filename(CreatedTime(n), t) : n \in NoteIds, t \in {AITitle, FallbackTitle}}

\* ------------------------------------------------------- one pass of a note
\* The places of process_page where a collaborator's call can raise.
FailPoints == {"none", "retrieve", "content", "update", "blocks", "append", "archive"}

\* update_notion_page, lines 325-335: pages.update.  The store stamps the
\* note with a new edit-revision.
UpdateProperties(note, title, tags) ==
    [note EXCEPT !.title = title, !.tags = tags, !.unprocessed = FALSE,
                 !.last_edited_time = @ + 1]

\* update_notion_page, line 379: blocks.children.append.
AppendBlocks(note, children) ==
    [note EXCEPT !.blocks = @ \o children, !.last_edited_time = @ + 1]

\* process_page, line 461, with the comparison taking the boundary in.
TooShortInclusive(note) == note.content_len = 0 \/ note.content_len <= MinContentLen

\* process_page, line 461.
TooShort(note) == note.content_len = 0 \/ note.content_len < MinContentLen

\* save_to_github with the raise of line 446 lost: a failed write is only printed.
SaveSwallowsError(fail) == FALSE

\* save_to_github, lines 444-446: a failed write is raised again.
SaveToGithubRaises(fail) == fail = "archive"

\* process_page for one note, the collaborators failing at `fail` (if the pass
\* gets there) and the analysis backend answering `backend`.
ProcessPage(note, cache, page_id, fail, backend) ==
    LET analysis == AnalyzeWithAI(backend, Body(note.content_len), note.tags)
        keywords == GetKeywords(analysis)
        related == FindRelatedPages(cache, keywords, page_id, TopK)
        updated == UpdateProperties(note, analysis["title"], analysis["tags"])
        appends == related # << >> /\ ~HasRelatedSection(ListBlocks(updated.blocks))
        linked == IF appends THEN AppendBlocks(updated, Children(related)) ELSE updated
        doc == [note |-> page_id, title |-> note.title, tags |-> analysis["tags"]]
        r0 == [outcome |-> "error", reason |-> fail, note |-> note,
               title |-> analysis["title"], last_edited_time |-> note.last_edited_time,
               keywords |-> keywords, related |-> related, enriched |-> TRUE,
               updated |-> FALSE, appended |-> FALSE, archived |-> FALSE,
               doc |-> doc, reached |-> TRUE]
    IN  CASE fail = "retrieve" ->
                [r0 EXCEPT !.enriched = FALSE, !.reached = (backend = "ok")]
          [] fail = "content" ->
                [r0 EXCEPT !.enriched = FALSE, !.reached = (backend = "ok")]
          [] TooShort(note) ->
                [r0 EXCEPT !.outcome = "skip", !.reason = "none", !.enriched = FALSE,
                           !.reached = (fail = "none" /\ backend = "ok")]
          [] fail = "update" -> r0
          [] fail = "blocks" ->
                [r0 EXCEPT !.note = updated, !.updated = TRUE,
                           !.reached = (related # << >>)]
          [] fail = "append" ->
                [r0 EXCEPT !.note = updated, !.updated = TRUE, !.reached = appends]
          [] SaveToGithubRaises(fail) ->
                [r0 EXCEPT !.note = linked, !.updated = TRUE, !.appended = appends]
          [] OTHER ->
                [r0 EXCEPT !.outcome = "success", !.reason = "none", !.note = linked,
                           !.updated = TRUE, !.appended = appends,
                           !.archived = (fail # "archive")]

\* ------------------------------------------------------------------ state
VARIABLES
    notion,            \* the document store: note id -> note
    archive,           \* the archive repository: path -> document
    disk,              \* the ledger file
    processing_log,    \* self.processing_log
    all_pages_cache,   \* self.all_pages_cache
    pages,             \* run: the candidates after the cap
    idx,               \* run: position of the for loop in pages
    success_count,     \* run: success_count
    error_count,       \* run: error_count
    force_reprocess,   \* run: the force_reprocess argument
    limit,             \* run: the limit argument (0: None)
    pc,                \* "idle", "loop", "done", "aborted", "crashed"
    \* history of the behaviour, read by the properties only
    runs,              \* run() calls so far
    edits,             \* external edits so far
    faults,            \* failing calls, failed saves and crashes so far
    edited,            \* notes edited since the previous run ended
    candidates,        \* this run: ids of the candidates before the cap
    attempted,         \* this run: ids process_page was called for, in order
    summary,           \* this run: the summary counts were printed
    abortCause,        \* this run: what escaped run()
    mutated,           \* this run: some store, archive or ledger write happened
    hadEntry,          \* notes with a ledger entry when this run began
    outcome,           \* this run: note id -> outcome of its pass
    prevRun,           \* the run before: its arguments, end and outcomes
    kept,              \* notes whose entry of the run before is in the ledger
    lastPass,          \* the last pass: what it did
    persisted,         \* note id -> last entry a successful save wrote
    inflight,          \* note whose entry was being written at a crash
    recovered,         \* the process restarted after a crash, no run since
    \* one call of a function on its own: arguments, and the result once made
    call

program == <<notion, archive, disk, processing_log, all_pages_cache, pages, idx,
             success_count, error_count, force_reprocess, limit, pc>>
history == <<runs, edits, faults, edited, candidates, attempted, summary, abortCause,
             mutated, hadEntry, outcome, prevRun, kept, lastPass, persisted,
             inflight, recovered>>
vars == <<program, history, call>>

NoOutcome == [n \in NoteIds |-> "none"]
NoRun == [ran |-> FALSE, force |-> FALSE, limit |-> 0, done |-> FALSE,
          outcome |-> NoOutcome]
NoPass == [note |-> 0, outcome |-> "none", reason |-> "none", updated |-> FALSE,
           appended |-> FALSE, archived |-> FALSE, recorded |-> FALSE,
           entry |-> NoEntry, related |-> 0, sectionSeen |-> FALSE,
           sectionsBefore |-> 0, enriched |-> FALSE, written |-> FALSE,
           readRevision |-> 0, keywords |-> << >>, links |-> << >>]
NoCall == [fn |-> "none", args |-> << >>, done |-> FALSE, ret |-> << >>]

InitNote(title, content_len, blocks) ==
    [title |-> title, tags |-> << >>, last_edited_time |-> 1, unprocessed |-> TRUE,
     content_len |-> content_len, blocks |-> blocks]

InitFiles == {MissingFile, GarbageFile, JsonFile(EmptyLog), JsonFile(NoKeyLog),
              JsonFile(ListLog)}

\* __init__ over a store whose second note has a body of c characters and a
\* ledger file `file`: the ledger is loaded from whatever the file holds.
Booted(c, file) ==
    /\ notion = [n \in NoteIds |->
                    IF n = 1 THEN InitNote(Memo, MinContentLen, <<Para>>)
                    ELSE InitNote(EmptyTitle, c, <<UserHeading, Para>>)]
    /\ archive = [p \in Paths |-> NoDoc]
    /\ disk = file
    /\ processing_log = LoadLog(file)
    /\ all_pages_cache = << >>
    /\ pages = << >>
    /\ idx = 1
    /\ success_count = 0
    /\ error_count = 0
    /\ force_reprocess = FALSE
    /\ limit = 0
    /\ pc = "idle"
    /\ runs = 0
    /\ edits = 0
    /\ faults = 0
    /\ edited = {}
    /\ candidates = << >>
    /\ attempted = << >>
    /\ summary = FALSE
    /\ abortCause = "none"
    /\ mutated = FALSE
    /\ hadEntry = {}
    /\ outcome = NoOutcome
    /\ prevRun = NoRun
    /\ kept = {}
    /\ lastPass = NoPass
    /\ persisted = [n \in NoteIds |-> NoEntry]
    /\ inflight = 0
    /\ recovered = FALSE

Init ==
    /\ \E c \in ContentLens, file \in InitFiles : Booted(c, file)
    /\ call = NoCall

\* ---------------------------------------------------------------- listing
\* One result of databases.query, as far as the pipeline reads it.
Page(n) == [id |-> n, title |-> notion[n].title, tags |-> notion[n].tags,
            last_edited_time |-> notion[n].last_edited_time]

\* get_all_pages: every note, in the database's order.
GetAllPages == [i \in 1..Len(NoteSeq) |-> Page(NoteSeq[i])]

\* get_unprocessed_pages, lines 96-121: the query with the Status / flag filter.
QueryUnprocessed == SelectSeq(GetAllPages, LAMBDA p : notion[p.id].unprocessed)

\* get_unprocessed_pages, lines 124-128: the ledger filter over the listed pages.
Ids(ps) == [i \in 1..Len(ps) |-> ps[i].id]
GetUnprocessedPages(log, listed) ==
    [raised |-> \E i \in 1..Len(listed) :
                   IsAlreadyProcessed(log, listed[i].id, listed[i].last_edited_time) = "raise",
     pages |-> SelectSeq(listed, LAMBDA p :
                   IsAlreadyProcessed(log, p.id, p.last_edited_time) # "true")]

\* run, lines 542-543: `if limit:` leaves None and 0 uncapped.
Cap(ps, lim) == IF lim # 0 THEN Take(ps, lim) ELSE ps

Limits == {0, 1}
Queries == {"ok", "raise"}

Cost(failed) == IF failed THEN 1 ELSE 0

\* ---------------------------------------------------------------- actions
\* run(), lines 523-550: the snapshot, the candidates, the cap.
RunBegin(f, lim, q1, q2) ==
    /\ pc = "idle"
    /\ runs < MaxRuns
    /\ q1 = "raise" \/ f => q2 = "ok"
    /\ faults + Cost(q1 # "ok") + Cost(q2 # "ok") <= MaxFaults
    /\ faults' = faults + Cost(q1 # "ok") + Cost(q2 # "ok")
    /\ LET cache == GetAllPages
           unp == GetUnprocessedPages(processing_log, QueryUnprocessed)
           cause == IF q1 = "raise" THEN "snapshot"
                    ELSE IF f THEN "none"
                    ELSE IF q2 = "raise" THEN "candidates"
                    ELSE IF unp.raised THEN "ledger_check"
                    ELSE "none"
           cand == IF cause # "none" THEN << >> ELSE IF f THEN cache ELSE unp.pages
       IN /\ all_pages_cache' = IF q1 = "raise" THEN all_pages_cache ELSE cache
          /\ pages' = Cap(cand, lim)
          /\ pc' = IF cause # "none" THEN "aborted"
                   ELSE IF cand = << >> THEN "done" ELSE "loop"
          /\ abortCause' = cause
          /\ candidates' = Ids(cand)
    /\ idx' = 1
    /\ success_count' = 0
    /\ error_count' = 0
    /\ force_reprocess' = f
    /\ limit' = lim
    /\ runs' = runs + 1
    /\ attempted' = << >>
    /\ summary' = FALSE
    /\ mutated' = FALSE
    /\ hadEntry' = {n \in NoteIds : processing_log.processed_pages[n] # NoEntry}
    /\ inflight' = 0
    /\ recovered' = FALSE
    /\ UNCHANGED <<notion, archive, disk, processing_log, edits, edited, outcome,
                   prevRun, kept, lastPass, persisted, call>>

\* find_related_pages reading a fresh listing of the store instead of the cache.
RelistedPages == GetAllPages

\* find_related_pages, line 254: the pages it iterates over.
SnapshotPages == all_pages_cache

\* process_page, line 511, storing the edit-revision of the note as updated.
SuccessEntryAfterUpdate(r) ==
    [title |-> r.title, last_edited_time |-> r.note.last_edited_time,
     status |-> "success"]

\* process_page, line 511: the arguments of _add_to_log.
SuccessEntry(r) ==
    [title |-> r.title, last_edited_time |-> r.last_edited_time, status |-> "success"]

\* run(), lines 561-566: the arguments of _add_to_log in the except branch.
ErrorEntry(page, reason) ==
    [title |-> IF page.title # EmptyTitle THEN page.title ELSE TitleFailed,
     last_edited_time |-> page.last_edited_time,
     status |-> "error: " \o reason]

\* run(), lines 552-567: one turn of the for loop, process_page and the
\* except branch included.
ProcessNext(fail, backend, save) ==
    /\ pc = "loop"
    /\ idx <= Len(pages)
    /\ faults + Cost(fail # "none") + Cost(backend # "ok") + Cost(save # "ok") <= MaxFaults
    /\ LET page == pages[idx]
           n == page.id
           r == ProcessPage(notion[n], SnapshotPages, n, fail, backend)
           recording == r.outcome # "skip"
           raises == recording /\ AddRaises(processing_log)
           written == recording /\ ~raises
           entry == IF r.outcome = "success" THEN SuccessEntry(r)
                    ELSE ErrorEntry(page, r.reason)
           newlog == AddEntry(processing_log, n, entry.title, entry.last_edited_time,
                              entry.status)
           ended == IF raises THEN "aborted"
                    ELSE IF written /\ save = "crash" THEN "crashed" ELSE r.outcome
       IN /\ r.reached
          /\ save = "ok" \/ written
          /\ faults' = faults + Cost(fail # "none") + Cost(backend # "ok")
                                + Cost(save # "ok")
          /\ notion' = [notion EXCEPT ![n] = r.note]
          /\ archive' = IF r.archived
                        THEN [archive EXCEPT ![Filename(CreatedTime(n), r.title)] = r.doc]
                        ELSE archive
          /\ processing_log' = IF written THEN newlog ELSE processing_log
          /\ disk' = IF written THEN SaveLog(disk, newlog, save) ELSE disk
          /\ pc' = CASE ended = "aborted" -> "aborted"
                     [] ended = "crashed" -> "crashed"
                     [] OTHER -> "loop"
          /\ idx' = IF ended \in {"aborted", "crashed"} THEN idx ELSE idx + 1
          /\ success_count' = IF ended \in {"skip", "success"}
                              THEN success_count + 1 ELSE success_count
          /\ error_count' = IF r.outcome = "error" \/ raises
                            THEN error_count + 1 ELSE error_count
          /\ abortCause' = IF raises THEN "ledger_record" ELSE abortCause
          /\ attempted' = Append(attempted, n)
          /\ mutated' = (mutated \/ r.updated \/ r.archived \/ written)
          /\ outcome' = [outcome EXCEPT ![n] = ended]
          /\ lastPass' = [note |-> n, outcome |-> ended, reason |-> r.reason,
                          updated |-> r.updated, appended |-> r.appended,
                          archived |-> r.archived,
                          recorded |-> written /\ save # "crash", entry |-> entry,
                          related |-> Len(r.related),
                          sectionSeen |-> HasRelatedSection(ListBlocks(notion[n].blocks)),
                          sectionsBefore |-> RelatedSections(notion[n].blocks),
                          enriched |-> r.enriched, written |-> written,
                          readRevision |-> notion[n].last_edited_time,
                          keywords |-> IF r.enriched THEN r.keywords ELSE << >>,
                          links |-> IF r.enriched THEN r.related ELSE << >>]
          /\ persisted' = IF written /\ save = "ok" THEN newlog.processed_pages
                          ELSE persisted
          /\ inflight' = IF ended = "crashed" THEN n ELSE inflight
    /\ UNCHANGED <<all_pages_cache, pages, force_reprocess, limit, runs, edits, edited,
                   candidates, summary, hadEntry, prevRun, kept, recovered, call>>

\* run(), lines 569-576: the summary.
RunEnd ==
    /\ pc = "loop"
    /\ idx > Len(pages)
    /\ pc' = "done"
    /\ summary' = TRUE
    /\ UNCHANGED <<notion, archive, disk, processing_log, all_pages_cache, pages, idx,
                   success_count, error_count, force_reprocess, limit, runs, edits,
                   faults, edited, candidates, attempted, abortCause, mutated, hadEntry,
                   outcome, prevRun, kept, lastPass, persisted, inflight, recovered,
                   call>>

\* The process dies between two passes.
Crash ==
    /\ pc = "loop"
    /\ faults < MaxFaults
    /\ faults' = faults + 1
    /\ pc' = "crashed"
    /\ UNCHANGED <<notion, archive, disk, processing_log, all_pages_cache, pages, idx,
                   success_count, error_count, force_reprocess, limit, runs, edits,
                   edited, candidates, attempted, summary, abortCause, mutated,
                   hadEntry, outcome, prevRun, kept, lastPass, persisted, inflight,
                   recovered, call>>

Recorded == {n \in NoteIds : outcome[n] \in {"success", "error"}}
EndOfRun == [ran |-> TRUE, force |-> force_reprocess, limit |-> limit,
             done |-> (pc = "done"), outcome |-> outcome]

\* main() runs once per process; the next run is a new process: __init__ and
\* its _load_log.
Restart ==
    /\ pc \in {"done", "aborted", "crashed"}
    /\ processing_log' = LoadLog(disk)
    /\ all_pages_cache' = << >>
    /\ pages' = << >>
    /\ idx' = 1
    /\ success_count' = 0
    /\ error_count' = 0
    /\ pc' = "idle"
    /\ prevRun' = EndOfRun
    /\ kept' = {n \in Recorded :
                  LoadLog(disk).processed_pages[n] = processing_log.processed_pages[n]}
    /\ edited' = {}
    /\ outcome' = NoOutcome
    /\ lastPass' = NoPass
    /\ recovered' = (pc = "crashed")
    /\ force_reprocess' = FALSE
    /\ limit' = 0
    /\ candidates' = << >>
    /\ attempted' = << >>
    /\ summary' = FALSE
    /\ abortCause' = "none"
    /\ mutated' = FALSE
    /\ hadEntry' = {}
    /\ UNCHANGED <<notion, archive, disk, runs, edits, faults, persisted, inflight,
                   call>>

\* The user edits a note between two runs; the store stamps a new
\* edit-revision.  reopen: the edit sets Status back to unprocessed.  (An edit
\* before the first run is part of the initial corpus.)
ExternalEdit(n, reopen) ==
    /\ pc = "idle"
    /\ prevRun.ran
    /\ edits < MaxEdits
    /\ notion' = [notion EXCEPT ![n].last_edited_time = @ + 1,
                                ![n].unprocessed = (@ \/ reopen)]
    /\ edits' = edits + 1
    /\ edited' = edited \cup {n}
    /\ UNCHANGED <<archive, disk, processing_log, all_pages_cache, pages, idx,
                   success_count, error_count, force_reprocess, limit, pc, runs, faults,
                   candidates, attempted, summary, abortCause, mutated, hadEntry,
                   outcome, prevRun, kept, lastPass, persisted, inflight, recovered,
                   call>>

Next ==
    \/ \E f \in BOOLEAN, lim \in Limits, q1 \in Queries, q2 \in Queries :
          RunBegin(f, lim, q1, q2)
    \/ \E fail \in FailPoints, backend \in Backends, save \in SaveOutcomes :
          ProcessNext(fail, backend, save)
    \/ RunEnd
    \/ Crash
    \/ Restart
    \/ \E n \in NoteIds, reopen \in BOOLEAN : ExternalEdit(n, reopen)

Spec == Init /\ [][Next]_vars

\* ------------------------------------------- the pure functions on their own
\* Each of these specifications starts from a call with arguments drawn from a
\* bounded set and lets the function return; the pipeline stays as constructed.
Pending(fn, args) == [fn |-> fn, args |-> args, done |-> FALSE, ret |-> << >>]
Returned(c, ret) == [c EXCEPT !.done = TRUE, !.ret = ret]
Quiet == Booted(MinContentLen, MissingFile)

\* Lengths of texts: the short ones and those around the limit `cut`.
LensAround(cut) == (0..MaxShort) \cup ((cut - MaxOver)..(cut + MaxOver))

\* analyze_with_ai(content, existing_tags)
ExistingTags == {<< >>, <<KwGc>>, <<KwGc, KwRust>>}
EnrichArgs ==
    [backend : Backends, content : {Body(n) : n \in LensAround(SummaryLen)},
     existing_tags : ExistingTags]
EnrichInit == Quiet /\ call \in {Pending("analyze_with_ai", a) : a \in EnrichArgs}
CallAnalyzeWithAI ==
    /\ call.fn = "analyze_with_ai"
    /\ ~call.done
    /\ call' = Returned(call, AnalyzeWithAI(call.args.backend, call.args.content,
                                            call.args.existing_tags))
    /\ UNCHANGED <<program, history>>
EnrichSpec == EnrichInit /\ [][CallAnalyzeWithAI]_vars

\* _is_already_processed(page_id, last_edited_time) over self.processing_log
Revisions == 1..MaxRev
Statuses == {"success", "error: update"}
Entries ==
    {NoEntry} \cup [title : {Memo}, last_edited_time : Revisions, status : Statuses]
Ledgers ==
    [shape : {"ok"}, processed_pages : [NoteIds -> Entries]] \cup {NoKeyLog, ListLog}
StaleArgs == [log : Ledgers, page_id : NoteIds, last_edited_time : 1..(MaxRev + 1)]
StaleInit == Quiet /\ call \in {Pending("_is_already_processed", a) : a \in StaleArgs}
CallIsAlreadyProcessed ==
    /\ call.fn = "_is_already_processed"
    /\ ~call.done
    /\ call' = Returned(call, IsAlreadyProcessed(call.args.log, call.args.page_id,
                                                 call.args.last_edited_time))
    /\ UNCHANGED <<program, history>>
StaleSpec == StaleInit /\ [][CallIsAlreadyProcessed]_vars

\* find_related_pages(keywords, current_page_id, top_k) over self.all_pages_cache
KwUs == <<"u", "s">>               \* inside a word
KwSpan == <<"t", " ", "g">>        \* across the space between two tags
KeywordLists == {<< >>, <<KwRust>>, <<RustWord>>, <<KwRust, KwGc>>, <<KwUs>>, <<KwSpan>>,
                 <<KwRust, KwRust>>}
PageKinds == {[title |-> EmptyTitle, tags |-> <<KwRust, KwGc>>],
              [title |-> UntitledMark, tags |-> <<KwRust, KwGc>>],
              [title |-> RustWord, tags |-> << >>],
              [title |-> RustWord, tags |-> <<KwRust, KwGc>>],
              [title |-> Memo, tags |-> << >>],
              [title |-> Memo, tags |-> <<KwRust, KwGc>>]}
\* The listings of k pages: the page at position i has id i.
Listings(k) ==
    {[i \in 1..k |-> [id |-> i, title |-> f[i].title, tags |-> f[i].tags,
                      last_edited_time |-> 1]] : f \in [1..k -> PageKinds]}
Snapshots == UNION {Listings(k) : k \in 0..MaxPages}
RelatedArgs ==
    [cache : Snapshots, keywords : KeywordLists, current_page_id : 0..MaxPages,
     top_k : 0..MaxPages]
RelatedInit == Quiet /\ call \in {Pending("find_related_pages", a) : a \in RelatedArgs}
CallFindRelatedPages ==
    /\ call.fn = "find_related_pages"
    /\ ~call.done
    /\ call' = Returned(call, FindRelatedPages(call.args.cache, call.args.keywords,
                                               call.args.current_page_id,
                                               call.args.top_k))
    /\ UNCHANGED <<program, history>>
RelatedSpec == RelatedInit /\ [][CallFindRelatedPages]_vars

\* process_page, lines 491-502, for a title and a created_time
TitleChars == {"x", "Z", "9", "/", "\\", " ", "-", "_", "?"}
TitleWith(n, pos, c) == [i \in 1..n |-> IF i = pos THEN c ELSE "x"]
AllOf(n, c) == [i \in 1..n |-> c]
Titles ==
    UNION {{TitleWith(n, pos, c) : pos \in 1..n, c \in TitleChars} \cup
           {AllOf(n, c) : c \in TitleChars} : n \in LensAround(SafeTitleLen)}
CreatedTimes == {CreatedTime(1), Replace(CreatedTime(1), "1", "2")}
FilenameArgs == [created_time : CreatedTimes, title : Titles]
FilenameInit == Quiet /\ call \in {Pending("filename", a) : a \in FilenameArgs}
CallFilename ==
    /\ call.fn = "filename"
    /\ ~call.done
    /\ call' = Returned(call, Filename(call.args.created_time, call.args.title))
    /\ UNCHANGED <<program, history>>
FilenameSpec == FilenameInit /\ [][CallFilename]_vars

\* ------------------------------------------------------------- properties
InSeq(x, seq) == \E i \in 1..Len(seq) : seq[i] = x
InRun == pc # "idle"
SecondNonForcedRun == InRun /\ prevRun.ran /\ ~prevRun.force /\ ~force_reprocess

CandidatesObtained == InRun /\ abortCause \notin {"snapshot", "candidates", "ledger_check"}

\* C2, as claimed: in a non-forced run, every note that had a ledger entry when
\* the run began and was edited since the run before is a candidate, and has
\* been attempted when the run is over.
EditDetection ==
    (CandidatesObtained /\ ~force_reprocess) =>
        \A n \in edited \cap hadEntry :
            /\ InSeq(n, candidates)
            /\ pc = "done" => InSeq(n, attempted)

\* C2, amended: the same for the notes that still match the store's filter
\* (Status unprocessed or processed flag false) when the run lists them; such
\* a note has been attempted when the run is over unless the cap cut it off.
EditDetectionInFilter ==
    (CandidatesObtained /\ ~force_reprocess) =>
        \A n \in edited \cap hadEntry :
            (notion[n].unprocessed \/ InSeq(n, attempted)) =>
                /\ InSeq(n, candidates)
                /\ (pc = "done" /\ InSeq(n, Ids(pages))) => InSeq(n, attempted)

\* C2, the case: a note recorded as a success, then edited and set back to
\* unprocessed, has been attempted again by a finished non-forced run.
EditDetectionWitness ==
    /\ CandidatesObtained
    /\ ~force_reprocess
    /\ pc = "done"
    /\ \E n \in edited \cap hadEntry :
          prevRun.outcome[n] = "success" /\ InSeq(n, attempted)

\* C3, as claimed: the ledger a process loads after a crash holds every entry
\* that a save had written before, except at most the entry of the note that
\* was being recorded when the process died.
LedgerCrashSafe ==
    recovered =>
        \A n \in NoteIds \ {inflight} :
            persisted[n] # NoEntry => processing_log.processed_pages[n] = persisted[n]

\* C4, as claimed: once _add_to_log has returned, the ledger file holds the
\* in-memory ledger, and that ledger holds the entry just recorded.
WriteThrough ==
    lastPass.recorded =>
        /\ disk = JsonFile(processing_log)
        /\ processing_log.processed_pages[lastPass.note] = lastPass.entry

\* C5, as claimed: whatever the ledger file held when it was loaded, no
\* staleness check and no record raises, so that no run ends on the ledger.
FailOpenLoad == abortCause \notin {"ledger_check", "ledger_record"}

\* C6, as claimed: when a pass has ended, the store update of the note and the
\* archive write of the pass have both happened or have both not happened, and
\* a backlink section that was due has been appended.
AppliedWhollyOrNotAtAll ==
    lastPass.note # 0 =>
        /\ lastPass.updated = lastPass.archived
        /\ (lastPass.updated /\ lastPass.related > 0 /\ ~lastPass.sectionSeen)
              => lastPass.appended

\* C7, as claimed: a pass in which a stage raises (and the process lives on)
\* leaves an error entry with the reason, the title the candidate was listed
\* with (the handler's stand-in text when that title is empty) and the
\* candidate's edit-revision, adds one to the error counter, leaves the
\* success counter alone and moves on to the next candidate.
FailureHandled ==
    [][(pc = "loop" /\ attempted' # attempted /\ lastPass'.reason # "none"
          /\ pc' # "crashed")
        => /\ processing_log'.processed_pages[pages[idx].id] =
                [title |-> IF pages[idx].title # EmptyTitle THEN pages[idx].title
                           ELSE TitleFailed,
                 last_edited_time |-> pages[idx].last_edited_time,
                 status |-> "error: " \o lastPass'.reason]
           /\ error_count' = error_count + 1
           /\ success_count' = success_count
           /\ idx' = idx + 1
           /\ pc' = "loop"]_vars

\* C8, as claimed: once the snapshot and the candidates are there, the run
\* does not abort; it has attempted the candidates before the loop position,
\* each once and in order, and when it is over it has attempted all of them
\* (up to the cap) and, if there were any, printed the summary.
RunCompletes ==
    CandidatesObtained =>
        /\ pc # "aborted"
        /\ pc = "loop" => attempted = SubSeq(Ids(pages), 1, idx - 1)
        /\ pc = "done" => attempted = Ids(pages) /\ (pages # << >> => summary)

\* C9, as claimed: a run aborts only when a listing of the corpus fails, and an
\* aborted run has written nothing: no store update, no block append, no
\* archive write, no ledger write.
FailFastAbort ==
    pc = "aborted" => abortCause \in {"snapshot", "candidates"} /\ ~mutated

\* C10, as claimed: no note ever holds more than one section headed by the
\* marker, and a store update of a note that holds one appends no blocks.
AppendOnce ==
    /\ \A n \in NoteIds : RelatedSections(notion[n].blocks) <= 1
    /\ (lastPass.updated /\ lastPass.sectionsBefore > 0) => ~lastPass.appended

\* C11, as claimed: whenever the backend's outcome is unusable (the call fails,
\* the answer is no JSON, or one of the fields title, tags, summary, keywords
\* is missing), analyze_with_ai returns exactly the fallback: the placeholder
\* title, the existing tags or else the single sentinel tag, the first 100
\* characters of the content as the summary, and no keywords.
FallbackOnUnusableBackend ==
    (call.fn = "analyze_with_ai" /\ call.done /\ call.args.backend # "ok") =>
        call.ret = [title |-> FallbackTitle,
                    tags |-> IF call.args.existing_tags # << >>
                             THEN call.args.existing_tags ELSE <<FallbackTag>>,
                    summary |-> SubSeq(call.args.content, 1,
                                       Min(SummaryLen, Len(call.args.content))),
                    keywords |-> << >>]

\* C12: a pass whose body was extracted (no failure of the retrieval or of the
\* extraction) ends as a skip when the body has fewer than 20 characters,
\* leaving the ledger, the ledger file, the store, the archive and the error
\* counter as they were; with 20 characters or more it goes on to the
\* enrichment.
SkipBoundary ==
    [][(pc = "loop" /\ attempted' # attempted
          /\ lastPass'.reason \notin {"retrieve", "content"}) =>
          IF notion[pages[idx].id].content_len < 20
          THEN /\ lastPass'.outcome = "skip"
               /\ ~lastPass'.enriched
               /\ processing_log' = processing_log
               /\ disk' = disk
               /\ notion' = notion
               /\ archive' = archive
               /\ error_count' = error_count
          ELSE lastPass'.enriched /\ lastPass'.outcome # "skip"]_vars

\* C12, the case: a note of 19 characters was skipped in a run in which a
\* note of 20 characters was processed to the end.
SkipBoundaryWitness ==
    /\ lastPass.outcome = "skip"
    /\ notion[lastPass.note].content_len = 19
    /\ processing_log.processed_pages[lastPass.note] = NoEntry
    /\ \E m \in NoteIds : outcome[m] = "success" /\ notion[m].content_len = 20

\* The claims' words about find_related_pages, said without the code's steps.
SubstringCI(kw, text) ==
    \E off \in 0..(Len(text) - Len(kw)) :
        \A k \in 1..Len(kw) : LowerChar(text[off + k]) = LowerChar(kw[k])
ClaimedScore(page, keywords) ==
    2 * Cardinality({k \in 1..Len(keywords) : SubstringCI(keywords[k], page.title)})
      + Cardinality({k \in 1..Len(keywords) : SubstringCI(keywords[k], Join(page.tags))})
Qualifies(page, keywords, excluded) ==
    /\ page.id # excluded
    /\ page.title # << >>
    /\ page.title # UntitledMark
    /\ ClaimedScore(page, keywords) > 0
RelatedReturned == call.fn = "find_related_pages" /\ call.done
Listed(id, res) == \E j \in 1..Len(res) : res[j].id = id

\* C13: the result of find_related_pages with top_k no smaller than the
\* snapshot holds a snapshot note, once, iff the note is not the excluded one,
\* its title is neither empty nor the placeholder and its score is above 0; an
\* entry carries the note's title and its score, twice the number of keywords
\* that are case-insensitive substrings of the title plus the number that are
\* case-insensitive substrings of the space-joined tags; no keywords, no result.
RelatedMembership ==
    (RelatedReturned /\ call.args.top_k >= Len(call.args.cache)) =>
        LET cache == call.args.cache
            keywords == call.args.keywords
            res == call.ret
        IN /\ \A i \in 1..Len(cache) :
                 Listed(cache[i].id, res)
                    <=> Qualifies(cache[i], keywords, call.args.current_page_id)
           /\ \A j \in 1..Len(res) :
                 \E i \in 1..Len(cache) :
                    /\ cache[i].id = res[j].id
                    /\ res[j].title = cache[i].title
                    /\ res[j].score = ClaimedScore(cache[i], keywords)
           /\ \A j, k \in 1..Len(res) : j # k => res[j].id # res[k].id
           /\ keywords = << >> => res = << >>

\* C13, the case: one keyword that occurs once in a title and once in its tags
\* gives score 3, while a note without any occurrence, a note with the
\* placeholder title and matching tags, and the excluded note are absent.
RelatedMembershipWitness ==
    /\ RelatedReturned
    /\ call.args.top_k >= Len(call.args.cache)
    /\ call.args.keywords = <<KwRust>>
    /\ Len(call.args.cache) = 3
    /\ call.args.current_page_id = 3
    /\ call.args.cache[1] = [id |-> 1, title |-> RustWord, tags |-> <<KwRust, KwGc>>,
                             last_edited_time |-> 1]
    /\ call.args.cache[2].title = UntitledMark
    /\ call.args.cache[3].title = RustWord
    /\ call.ret = <<[id |-> 1, title |-> RustWord, score |-> 3]>>

\* Position in the snapshot of the note with the given id.
Pos(id, cache) == CHOOSE i \in 1..Len(cache) : cache[i].id = id

\* C14: the result of find_related_pages holds the first top_k of the
\* qualifying notes in the order of descending score, notes of equal score in
\* the order of the snapshot: it has min(top_k, number of qualifying notes)
\* entries, each a qualifying note; an earlier entry has a higher score than a
\* later one or the same score and an earlier place in the snapshot; and a
\* qualifying note left out comes after every entry in that order.
RelatedRanking ==
    RelatedReturned =>
        LET cache == call.args.cache
            keywords == call.args.keywords
            res == call.ret
            Q == {i \in 1..Len(cache) :
                     Qualifies(cache[i], keywords, call.args.current_page_id)}
            Before(s1, p1, s2, p2) == s1 > s2 \/ (s1 = s2 /\ p1 < p2)
        IN /\ Len(res) <= call.args.top_k
           /\ Len(res) = Min(call.args.top_k, Cardinality(Q))
           /\ \A j \in 1..Len(res) :
                 /\ \E i \in Q : cache[i].id = res[j].id
                 /\ res[j].score = ClaimedScore(cache[Pos(res[j].id, cache)], keywords)
           /\ \A j, k \in 1..Len(res) :
                 j < k => Before(res[j].score, Pos(res[j].id, cache),
                                 res[k].score, Pos(res[k].id, cache))
           /\ \A i \in Q : \A j \in 1..Len(res) :
                 ~Listed(cache[i].id, res)
                    => Before(res[j].score, Pos(res[j].id, cache),
                              ClaimedScore(cache[i], keywords), i)

\* C14, the case: three qualifying notes, the first and the second of equal
\* score below the third one's, cut to two: the third comes first, then the
\* first, and the second is left out.
RelatedRankingWitness ==
    /\ RelatedReturned
    /\ call.args.top_k = 2
    /\ Len(call.args.cache) = 3
    /\ Len(call.ret) = 2
    /\ call.ret[1].id = 3
    /\ call.ret[2].id = 1
    /\ call.ret[1].score > call.ret[2].score
    /\ ClaimedScore(call.args.cache[2], call.args.keywords) = call.ret[2].score
    /\ Qualifies(call.args.cache[2], call.args.keywords, call.args.current_page_id)

\* C15: the step that begins a run captures the snapshot as a listing of the
\* store as it is before the run has written anything; no later step of the
\* run changes the snapshot; and the related notes of a pass are the notes
\* other than the processed one that qualify by their titles and tags in the
\* snapshot, whatever the store holds by then.
SnapshotIsolation ==
    [][/\ (pc = "idle" /\ pc' = "loop")
             => all_pages_cache' = GetAllPages /\ notion' = notion /\ ~mutated'
       /\ pc = "loop" => all_pages_cache' = all_pages_cache
       /\ (pc = "loop" /\ attempted' # attempted /\ lastPass'.enriched)
             => /\ ~Listed(lastPass'.note, lastPass'.links)
                /\ \A i \in 1..Len(all_pages_cache) :
                      Listed(all_pages_cache[i].id, lastPass'.links)
                         <=> Qualifies(all_pages_cache[i], lastPass'.keywords,
                                       lastPass'.note)]_vars

\* C15, the case: the first note got a title from the enrichment earlier in the
\* run; the title would match the keywords of the second note's pass, yet the
\* pass found no related note, the snapshot holding the first note's old title.
SnapshotIsolationWitness ==
    /\ pc = "loop"
    /\ outcome[1] = "success"
    /\ lastPass.note = 2
    /\ lastPass.enriched
    /\ all_pages_cache[1].title = Memo
    /\ notion[1].title = AITitle
    /\ Qualifies(Page(1), lastPass.keywords, 2)
    /\ lastPass.links = << >>

\* C16, as claimed: for every ledger the pipeline can hold, every note id and
\* every edit-revision, _is_already_processed answers, and answers False (the
\* note is stale) iff the ledger has no entry for the note or the entry's
\* stored edit-revision differs from the given one, whatever the entry's status.
StaleContract ==
    (call.fn = "_is_already_processed" /\ call.done) =>
        LET entry == call.args.log.processed_pages[call.args.page_id]
        IN /\ call.ret \in {"true", "false"}
           /\ call.ret = "false"
                 <=> (entry = NoEntry
                        \/ entry.last_edited_time # call.args.last_edited_time)

\* C17: the archive path of a title and a creation time is the fixed
\* directory, a slash, the first 10 characters of the creation time, an
\* underscore, a sanitized title and the extension; the sanitized title holds
\* only alphanumeric characters, spaces, hyphens and underscores (no slash, no
\* backslash) and at most 50 characters.  (The path is a function of the title
\* and the creation time: the same two always give the same path.)
SafeFilename ==
    (call.fn = "filename" /\ call.done) =>
        LET path == call.ret
            front == TargetDir \o <<"/">> \o SubSeq(call.args.created_time, 1, 10)
                        \o <<"_">>
            name == SubSeq(path, Len(front) + 1, Len(path) - Len(Extension))
        IN /\ Len(front) = Len(TargetDir) + 12
           /\ Len(path) >= Len(front) + Len(Extension)
           /\ SubSeq(path, 1, Len(front)) = front
           /\ SubSeq(path, Len(path) - Len(Extension) + 1, Len(path)) = Extension
           /\ \A i \in 1..Len(name) : name[i] \in AlnumChars \cup {" ", "-", "_"}
           /\ \A i \in 1..Len(name) : name[i] \notin {"/", "\\"}
           /\ Len(name) <= 50

\* C17, the case: a title of more than 50 characters with a slash among the
\* first 50 gives a name of exactly 50 characters, a hyphen where the slash was.
SafeFilenameWitness ==
    /\ call.fn = "filename"
    /\ call.done
    /\ Len(call.args.title) > 50
    /\ call.args.title[3] = "/"
    /\ Len(call.ret) = Len(TargetDir) + 12 + 50 + Len(Extension)
    /\ call.ret[Len(TargetDir) + 12 + 3] = "-"

\* C18: in every pass the store is updated only after the enrichment and the
\* linking, the archive is written only after the store update has gone through
\* (the properties set and the backlink section, if one was due, appended), and
\* a success entry is recorded only after both writes; so when a success entry
\* has been recorded, the note is set to processed in the store and the
\* archive holds the document of this pass.
StageOrdering ==
    lastPass.note # 0 =>
        /\ lastPass.updated => lastPass.enriched
        /\ lastPass.archived =>
              /\ lastPass.updated
              /\ (lastPass.related > 0 /\ ~lastPass.sectionSeen) => lastPass.appended
        /\ (lastPass.written /\ lastPass.entry.status = "success") =>
              /\ lastPass.updated
              /\ lastPass.archived
              /\ processing_log.processed_pages[lastPass.note] = lastPass.entry
              /\ ~notion[lastPass.note].unprocessed
              /\ notion[lastPass.note].title = lastPass.entry.title
              /\ archive[Filename(CreatedTime(lastPass.note), lastPass.entry.title)].note
                    = lastPass.note

\* C18, the case: a pass that appended a backlink section, wrote the archive
\* and recorded its success.
StageOrderingWitness ==
    /\ lastPass.note # 0
    /\ lastPass.written
    /\ lastPass.entry.status = "success"
    /\ lastPass.related > 0
    /\ lastPass.appended
    /\ lastPass.archived

\* C19: the ledger entry a pass writes, for a success as for an error, stores
\* the edit-revision the note had in the store when the pass began, before any
\* write of the pass; when the pass updated the note, that is not the
\* edit-revision the update left the note with.
LedgerRevision ==
    lastPass.written =>
        /\ lastPass.entry.last_edited_time = lastPass.readRevision
        /\ processing_log.processed_pages[lastPass.note].last_edited_time
              = lastPass.readRevision
        /\ lastPass.updated
              => notion[lastPass.note].last_edited_time # lastPass.readRevision

\* C19, the case: a pass updated the note, which got a new edit-revision, and
\* recorded its success with the edit-revision read before.
LedgerRevisionWitness ==
    /\ lastPass.written
    /\ lastPass.updated
    /\ lastPass.entry.status = "success"
    /\ processing_log.processed_pages[lastPass.note].last_edited_time
          < notion[lastPass.note].last_edited_time

\* C20, as claimed: when a run prints its summary, the success count plus the
\* error count is the number of candidates attempted, the success count is the
\* number of notes for which this run recorded a success entry, and the error
\* count is the number of notes for which it recorded an error entry.
SummaryCounts ==
    summary =>
        /\ success_count + error_count = Len(attempted)
        /\ success_count = Cardinality({n \in NoteIds : outcome[n] = "success"})
        /\ error_count = Cardinality({n \in NoteIds : outcome[n] = "error"})

\* C21, as claimed: when a pass has succeeded, the title of the archival
\* document it wrote (the title of the header block and of the level-1
\* heading) is the title the pass wrote to the note in the store, the one the
\* ledger entry and the archive path carry.
TitleAgreement ==
    (lastPass.outcome = "success" /\ lastPass.archived) =>
        /\ notion[lastPass.note].title = lastPass.entry.title
        /\ archive[Filename(CreatedTime(lastPass.note), lastPass.entry.title)].title
              = notion[lastPass.note].title

\* C22, as claimed: an archive path that holds the document of a note is never
\* written with the document of another note.
NoArchiveCollision ==
    [][\A p \in Paths :
          archive[p].note # 0 => archive'[p].note = archive[p].note]_vars

====
